---- MODULE Spec2Model ----
(***************************************************************************)
(* Data-Privacy-Protection-System: the cryptographic core                  *)
(*   server/encryption.ts        (src/unnamed/part_007)                    *)
(*   server/storage.ts           (src/server/auth.ts, MemStorage)          *)
(*   server/anomaly-detection.ts (src/server/auth.ts, detectAnomalies)     *)
(*   server/routes.ts            (src/SecureShield/server/routes.ts)       *)
(*                                                                         *)
(* Every request is a call `calls[i]`.  An async function runs without     *)
(* interruption up to its next `await storage.X(...)`: the storage method  *)
(* itself executes at the call, then the caller is suspended.  One action  *)
(* of the model is one such run.  Byte strings are symbolic: a buffer is   *)
(* its length and a term naming its content; random bytes are fresh terms. *)
(***************************************************************************)
EXTENDS Integers, Sequences, FiniteSets, TLC

VARIABLES
    usersStore,          \* MemStorage.usersStore: id -> User
    keysStore,           \* MemStorage.keysStore: id -> EncryptionKey
    keyIdIndex,          \* MemStorage.keyIdIndex: keyId (public) -> id
    keyIdCounter,        \* MemStorage.keyIdCounter
    operationsStore,     \* MemStorage.operationsStore: id -> EncryptionOperation
    operationIdCounter,  \* MemStorage.operationIdCounter
    auditLogsStore,      \* MemStorage.auditLogsStore: id -> AuditLog
    auditLogIdCounter,   \* MemStorage.auditLogIdCounter
    operationsCache,     \* anomaly-detection operationsCache: userId -> operations
    now,                 \* the wall clock, in milliseconds (new Date())
    calls,               \* the requests: position, arguments, locals, result
    tasks,               \* the detectAnomalies(...).then(...) chain each call started
    restarts             \* how often the server process was started again

vars == <<usersStore, keysStore, keyIdIndex, keyIdCounter, operationsStore,
          operationIdCounter, auditLogsStore, auditLogIdCounter,
          operationsCache, now, calls, tasks, restarts>>

-----------------------------------------------------------------------------
(* Bounds of the model *)

MaxCalls == 3
MaxInFlight == 2
MaxUsers == 2
MaxRestarts == 1
MaxTicks == 1        \* the times the clock moves on in the timed specification
TickMs == 1000       \* the milliseconds it moves on by
StartTime == 43200000

CallIds == 1..MaxCalls

-----------------------------------------------------------------------------
(* Values *)

Null == [null |-> TRUE]

NoErr == <<"", "">>

Error(msg, arg) == <<msg, arg>>

Ok(v) == [ok |-> TRUE, v |-> v, err |-> NoErr]

Throw(e) == [ok |-> FALSE, v |-> Null, err |-> e]

Buffer(len, term) == [len |-> len, term |-> term]

EmptyBuffer == Buffer(0, <<"empty">>)

\* a JavaScript string: its UTF-8 length and its content
String(bytes, text) == [bytes |-> bytes, text |-> text]

\* buf.toString('hex')
toHex(buf) == [hex |-> TRUE, b |-> buf]

\* a string segment that is no hex at all
Junk == [hex |-> FALSE, b |-> EmptyBuffer]

\* Buffer.from(s, 'hex'): decoding stops at the first character that is no hex
fromHex(s) == IF s.hex THEN s.b ELSE EmptyBuffer

\* Buffer.from(str, 'hex') of a string given by its ':'-separated segments:
\* the ':' ends the decoding, so only the first segment is decoded
fromHexString(parts) == IF Len(parts) = 0 THEN EmptyBuffer ELSE fromHex(parts[1])

\* randomBytes(n): a fresh value, named by the call that draws it and its use
randomBytes(n, i, use) == Buffer(n, <<"rand", i, use>>)

\* JSON.stringify(v)
JSONstringify(v) == String(64, <<"json", v>>)

IsJSON(s) == s.text[1] = "json"

\* JSON.parse(s) of a string JSON.stringify made
JSONparse(s) == s.text[2]

ALGORITHMS == [AES_256_CBC |-> "aes-256-cbc", AES_128_CBC |-> "aes-128-cbc",
               RSA_2048 |-> "rsa-2048", ECC_P256 |-> "ecc-p256"]

AlgorithmValues == {ALGORITHMS.AES_256_CBC, ALGORITHMS.AES_128_CBC,
                    ALGORITHMS.RSA_2048, ALGORITHMS.ECC_P256}

MASTER_KEY == toHex(Buffer(32, <<"master">>))

AES256KeyBytes == 32
AESBlockBytes == 16
RSAModulusBytes == 256
RSAPkcs1Overhead == 11

-----------------------------------------------------------------------------
(* Primitive layer (node:crypto as encryption.ts uses it) *)

IsNull(x) == "null" \in DOMAIN x

ErrorMessage(r) == r.err[1]

\* createCipheriv / createDecipheriv('aes-256-cbc', key, iv): the checks of the
\* cipher on its key and IV; the cipher name is the literal 'aes-256-cbc'
CipherivError(key, iv) ==
    IF key.len # AES256KeyBytes THEN Error("Invalid key length", "")
    ELSE IF iv.len # AESBlockBytes THEN Error("Invalid initialization vector", "")
    ELSE NoErr

\* PKCS#7: the ciphertext is the next multiple of the block size
PaddedLen(n) == AESBlockBytes * ((n \div AESBlockBytes) + 1)

encryptAES(data, key, iv) ==
    IF CipherivError(key, iv) # NoErr THEN Throw(CipherivError(key, iv))
    ELSE Ok([encrypted |-> toHex(Buffer(PaddedLen(data.bytes), <<"aes", key, iv, data>>)),
             iv |-> toHex(iv)])

\* `encrypted` is a hex string, or undefined (Null) when split(':') had no such part
decryptAES(encrypted, key, iv) ==
    IF CipherivError(key, iv) # NoErr THEN Throw(CipherivError(key, iv))
    ELSE IF IsNull(encrypted)
    THEN Throw(Error("The \"data\" argument must be of type string", ""))
    ELSE LET ct == fromHex(encrypted) IN
         IF ct.term[1] = "aes" /\ ct.term[2] = key /\ ct.term[3] = iv
         THEN Ok(ct.term[4])
         ELSE Throw(Error("bad decrypt", ""))

Pem(type, body) == [type |-> type, body |-> body]

\* publicEncrypt({key, padding: RSA_PKCS1_PADDING}, buffer)
encryptRSA(data, publicKey) ==
    IF publicKey.type # "rsa-public" THEN Throw(Error("unsupported key", ""))
    ELSE IF data.bytes > RSAModulusBytes - RSAPkcs1Overhead
    THEN Throw(Error("data too large for key size", ""))
    ELSE Ok(toHex(Buffer(RSAModulusBytes, <<"rsa", publicKey.body, data>>)))

\* privateDecrypt over Buffer.from(data, 'hex') of the whole string
decryptRSA(parts, privateKey) ==
    LET buffer == fromHexString(parts) IN
    IF privateKey.type # "rsa-private" THEN Throw(Error("unsupported key", ""))
    ELSE IF buffer.term[1] = "rsa" /\ buffer.term[2] = privateKey.body
    THEN Ok(buffer.term[3])
    ELSE Throw(Error("decryption error", ""))

(* P-256 keys as Node encodes them.  A scalar and its point are named by the
   call that generated them: every byte of scalar s is ScalarByte + s, every
   coordinate byte of its point PointByte + s. *)
ECScalarBytes == 32
ECPointBytes == 65
ScalarByte == 100
PointByte == 150

Bytes(seq) == Buffer(Len(seq), <<"bytes", seq>>)

IsBytes(buf) == buf.term[1] = "bytes"

ECScalar(s) == [j \in 1..ECScalarBytes |-> ScalarByte + s]

\* the uncompressed point 04 || X || Y
ECPoint(s) == <<4>> \o [j \in 1..(ECPointBytes - 1) |-> PointByte + s]

\* SubjectPublicKeyInfo of a prime256v1 key: 30 59 30 13 06 07 (id-ecPublicKey)
\* 06 08 (prime256v1 = 2a 86 48 ce 3d 03 01 07) 03 42 00 || point
SpkiDER(s) ==
    <<48, 89, 48, 19, 6, 7, 42, 134, 72, 206, 61, 2, 1,
      6, 8, 42, 134, 72, 206, 61, 3, 1, 7, 3, 66, 0>> \o ECPoint(s)

\* PKCS#8 of a prime256v1 key: 30 81 87 02 01 00 30 13 (the same two OIDs)
\* 04 6d 30 6b 02 01 01 04 20 || scalar || a1 44 03 42 00 || point
Pkcs8DER(s) ==
    <<48, 129, 135, 2, 1, 0, 48, 19, 6, 7, 42, 134, 72, 206, 61, 2, 1,
      6, 8, 42, 134, 72, 206, 61, 3, 1, 7, 4, 109, 48, 107, 2, 1, 1, 4, 32>>
    \o ECScalar(s) \o <<161, 68, 3, 66, 0>> \o ECPoint(s)

\* derBuffer.slice(from, to), offsets counted from 0
slice(der, from, to) ==
    IF from >= to \/ from >= Len(der) THEN <<>>
    ELSE SubSeq(der, from + 1, IF to > Len(der) THEN Len(der) ELSE to)

IsScalar(seq) == \E s \in CallIds : seq = ECScalar(s)

IsPoint(seq) == \E s \in CallIds : seq = ECPoint(s)

\* ecdh.computeSecret(otherPublicKey) with the private scalar `priv` set: the
\* public key must be a point of the curve; both sides derive the same secret
computeSecret(priv, public) ==
    IF ~(IsBytes(public) /\ IsPoint(public.term[2]))
    THEN Throw(Error("Public key is not valid for specified curve", ""))
    ELSE Ok(Buffer(ECScalarBytes,
                   <<"ecdh", {priv[1] - ScalarByte, public.term[2][2] - PointByte}>>))

\* createHash('sha256').update(x).digest()
sha256(x) == Buffer(32, <<"sha256", x>>)

-----------------------------------------------------------------------------
(* Hybrid ECC: the ASN.1 byte scans of encryption.ts *)

\* derBuffer[offset], offsets counted from 0; -1 stands for undefined
ByteAt(der, offset) == IF offset < Len(der) THEN der[offset + 1] ELSE -1

RECURSIVE ScanBitString(_, _)
\* the while loop of extractPublicKeyFromDER: the first byte 0x03 anywhere in
\* the buffer is taken for the bit string tag; tag, length and unused-bits
\* byte are skipped and the rest returned
ScanBitString(der, offset) ==
    IF offset >= Len(der) THEN slice(der, Len(der) - ECPointBytes, Len(der))
    ELSE IF der[offset + 1] = 3 THEN slice(der, offset + 3, Len(der))
    ELSE ScanBitString(der, offset + 1)

extractPublicKeyFromDER(derBuffer) == ScanBitString(derBuffer, 0)

RECURSIVE ReadLength(_, _, _, _)
\* the multi-byte length loop: length = (length << 8) | derBuffer[offset]
ReadLength(der, offset, lengthBytes, length) ==
    IF lengthBytes = 0 THEN <<length, offset>>
    ELSE ReadLength(der, offset + 1, lengthBytes - 1,
                    length * 256 + (IF ByteAt(der, offset) < 0 THEN 0 ELSE ByteAt(der, offset)))

RECURSIVE GuessScalar(_, _)
\* the fallback loop of extractPrivateKeyFromDER: the first byte 0x20 is taken
\* for a length byte and the 32 bytes behind it for the key
GuessScalar(der, i) ==
    IF i >= Len(der) - ECScalarBytes
    THEN Throw(Error("Failed to extract private key from DER",
                     "Could not find private key in DER encoding"))
    ELSE IF der[i + 1] = 32 THEN Ok(slice(der, i + 1, i + 1 + ECScalarBytes))
    ELSE GuessScalar(der, i + 1)

RECURSIVE ScanOctetString(_, _)
\* the while loop of extractPrivateKeyFromDER: every byte 0x04 is taken for an
\* octet string tag; one of length 32 is the key, any other is skipped whole
ScanOctetString(der, offset) ==
    IF offset >= Len(der) THEN GuessScalar(der, 0)
    ELSE IF der[offset + 1] # 4 THEN ScanOctetString(der, offset + 1)
    ELSE LET first == ByteAt(der, offset + 1)
             lenOff == IF first >= 128
                       THEN ReadLength(der, offset + 2, first - 128, 0)
                       ELSE <<first, offset + 2>>
         IN  IF first < 0 THEN GuessScalar(der, 0)
             ELSE IF lenOff[1] = ECScalarBytes
             THEN Ok(slice(der, lenOff[2], lenOff[2] + ECScalarBytes))
             ELSE ScanOctetString(der, lenOff[2] + lenOff[1])

extractPrivateKeyFromDER(derBuffer) == ScanOctetString(derBuffer, 0)

\* the PEM armour is cut off and the base64 body decoded
loadECPrivateKey(privateKeyPem) == extractPrivateKeyFromDER(privateKeyPem.body)

deriveSharedSecretFromPublicKey(ecdhPrivate, publicKeyPem) ==
    computeSecret(ecdhPrivate, Bytes(extractPublicKeyFromDER(publicKeyPem.body)))

\* i names the ephemeral key pair of ecdh.generateKeys() and the IV
encryptWithECC(data, publicKey, i) ==
    LET sharedSecret == deriveSharedSecretFromPublicKey(ECScalar(i), publicKey)
        iv == randomBytes(16, i, "iv")
        result == encryptAES(data, sha256(sharedSecret.v), iv)
    IN  IF ~sharedSecret.ok
        THEN Throw(Error("ECC encryption failed", ErrorMessage(sharedSecret)))
        ELSE IF ~result.ok
        THEN Throw(Error("ECC encryption failed", ErrorMessage(result)))
        ELSE Ok(<<toHex(Bytes(ECPoint(i))), result.v.iv, result.v.encrypted>>)

\* parts = encryptedData.split(':'); a string without ':' has one part
decryptWithECC(parts, privateKey) ==
    IF Len(parts) < 2
    THEN Throw(Error("ECC decryption failed",
                     "Invalid encrypted data format for ECC decryption"))
    ELSE IF Len(parts) # 3
    THEN Throw(Error("ECC decryption failed", "Expected 3 parts in encrypted data"))
    ELSE LET privateKeyObj == loadECPrivateKey(privateKey)
             sharedSecret == computeSecret(privateKeyObj.v, fromHex(parts[1]))
             decrypted == decryptAES(parts[3], sha256(sharedSecret.v), fromHex(parts[2]))
         IN  IF ~privateKeyObj.ok
             THEN Throw(Error("ECC decryption failed", ErrorMessage(privateKeyObj)))
             ELSE IF ~IsScalar(privateKeyObj.v)
             THEN Throw(Error("ECC decryption failed", "Private key is not valid for specified curve"))
             ELSE IF ~sharedSecret.ok
             THEN Throw(Error("ECC decryption failed", ErrorMessage(sharedSecret)))
             ELSE IF ~decrypted.ok
             THEN Throw(Error("ECC decryption failed", ErrorMessage(decrypted)))
             ELSE decrypted

-----------------------------------------------------------------------------
(* MemStorage *)

NullDate == -1

\* Map.set(k, v)
MapSet(map, k, v) == [x \in DOMAIN map \cup {k} |-> IF x = k THEN v ELSE map[x]]

\* Map.get(k), undefined as Null
MapGet(map, k) == IF k \in DOMAIN map THEN map[k] ELSE Null

\* { ...a, ...b } for a patch b of some fields of a
Spread(a, b) == [f \in DOMAIN a \cup DOMAIN b |-> IF f \in DOMAIN b THEN b[f] ELSE a[f]]

\* a createKey that stores every key as active
NewKeyActive(keyData) ==
    [id |-> keyIdCounter,
     name |-> keyData.name,
     userId |-> keyData.userId,
     keyId |-> keyData.keyId,
     algorithm |-> keyData.algorithm,
     keyData |-> keyData.keyData,
     iv |-> keyData.iv,
     status |-> "active",
     createdAt |-> now,
     updatedAt |-> now,
     lastUsed |-> NullDate,
     expiresAt |-> NullDate]

\* the EncryptionKey createKey builds from an InsertEncryptionKey
NewKey(keyData) ==
    [id |-> keyIdCounter,
     name |-> keyData.name,
     userId |-> keyData.userId,
     keyId |-> keyData.keyId,
     algorithm |-> keyData.algorithm,
     keyData |-> keyData.keyData,
     iv |-> keyData.iv,
     status |-> IF keyData.status = "" THEN "active" ELSE keyData.status,
     createdAt |-> now,
     updatedAt |-> now,
     lastUsed |-> NullDate,
     expiresAt |-> NullDate]

createKey(keyData) ==
    /\ keysStore' = MapSet(keysStore, keyIdCounter, NewKey(keyData))
    /\ keyIdIndex' = MapSet(keyIdIndex, keyData.keyId, keyIdCounter)
    /\ keyIdCounter' = keyIdCounter + 1

getKey(id) == MapGet(keysStore, id)

\* a lookup that finds nothing
getKeyByKeyIdAbsent(keyId) == Null

getKeyByKeyId(keyId) ==
    IF keyId \in DOMAIN keyIdIndex THEN MapGet(keysStore, keyIdIndex[keyId]) ELSE Null

RECURSIVE InIdOrder(_, _)
\* Array.from(map.values()) restricted to the ids in S: insertion order is id order
InIdOrder(map, S) ==
    IF S = {} THEN <<>>
    ELSE LET m == CHOOSE x \in S : \A y \in S : x <= y
         IN  <<map[m]>> \o InIdOrder(map, S \ {m})

getUserKeys(userId) ==
    InIdOrder(keysStore, {id \in DOMAIN keysStore : keysStore[id].userId = userId})

\* the key updateKey stores: the stored key, the patch spread over it
UpdatedKey(existingKey, keyData) ==
    [Spread(existingKey, keyData) EXCEPT !.updatedAt = now]

updateKey(id, keyData) ==
    /\ keyIdCounter' = keyIdCounter
    /\ IF id \notin DOMAIN keysStore
       THEN keysStore' = keysStore /\ keyIdIndex' = keyIdIndex
       ELSE /\ keysStore' = MapSet(keysStore, id, UpdatedKey(keysStore[id], keyData))
            /\ keyIdIndex' =
                 IF "keyId" \in DOMAIN keyData /\ keyData.keyId # keysStore[id].keyId
                 THEN MapSet([k \in DOMAIN keyIdIndex \ {keysStore[id].keyId} |-> keyIdIndex[k]],
                             keyData.keyId, id)
                 ELSE keyIdIndex

NewOperation(operationData) ==
    [id |-> operationIdCounter,
     userId |-> operationData.userId,
     keyId |-> operationData.keyId,
     operation |-> operationData.operation,
     algorithm |-> operationData.algorithm,
     resourceName |-> operationData.resourceName,
     status |-> operationData.status,
     timestamp |-> now]

recordOperation(operationData) ==
    /\ operationsStore' = MapSet(operationsStore, operationIdCounter, NewOperation(operationData))
    /\ operationIdCounter' = operationIdCounter + 1

RECURSIVE NewestFirst(_, _)
\* [...].sort((a, b) => b.timestamp - a.timestamp): by timestamp, newest first;
\* the sort is stable, so records of one timestamp stay in insertion (id) order
NewestFirst(map, S) ==
    IF S = {} THEN <<>>
    ELSE LET m == CHOOSE x \in S :
                    \A y \in S : \/ map[x].timestamp > map[y].timestamp
                                 \/ (map[x].timestamp = map[y].timestamp /\ x <= y)
         IN  <<map[m]>> \o NewestFirst(map, S \ {m})

\* array.slice(from, to)
ArraySlice(seq, from, to) ==
    IF from >= Len(seq) \/ from >= to THEN <<>>
    ELSE SubSeq(seq, from + 1, IF to > Len(seq) THEN Len(seq) ELSE to)

getOperationsByUser(userId, limit) ==
    ArraySlice(NewestFirst(operationsStore,
                           {id \in DOMAIN operationsStore : operationsStore[id].userId = userId}),
               0, limit)

NewAuditLog(logData) ==
    [id |-> auditLogIdCounter,
     userId |-> logData.userId,
     action |-> logData.action,
     resource |-> logData.resource,
     status |-> logData.status,
     ipAddress |-> logData.ipAddress,
     userAgent |-> logData.userAgent,
     details |-> logData.details,
     timestamp |-> now]

\* an append that takes the id without advancing the counter
recordAuditLogSameId(logData) ==
    /\ auditLogsStore' = MapSet(auditLogsStore, auditLogIdCounter, NewAuditLog(logData))
    /\ auditLogIdCounter' = auditLogIdCounter

recordAuditLog(logData) ==
    /\ auditLogsStore' = MapSet(auditLogsStore, auditLogIdCounter, NewAuditLog(logData))
    /\ auditLogIdCounter' = auditLogIdCounter + 1

\* Object.entries(filters).every(([key, value]) => log[key] === value)
MatchesFilters(log, filters) == \A f \in DOMAIN filters : log[f] = filters[f]

getAuditLogs(filters, limit, offset) ==
    ArraySlice(NewestFirst(auditLogsStore,
                           {id \in DOMAIN auditLogsStore : MatchesFilters(auditLogsStore[id], filters)}),
               offset, offset + limit)

\* Number.MAX_SAFE_INTEGER; the largest integer of the checker stands for 2^53 - 1
MAX_SAFE_INTEGER == 2147483647

countAuditLogs(filters) == Len(getAuditLogs(filters, MAX_SAFE_INTEGER, 0))

\* the audit detail objects of encryption.ts: { error }, or other fields
Details(error, info) == [error |-> error, info |-> info]

AuditEntry(userId, action, resource, status, details) ==
    [userId |-> userId, action |-> action, resource |-> resource, status |-> status,
     ipAddress |-> "null", userAgent |-> "null", details |-> details]

NoUser == 0

-----------------------------------------------------------------------------
(* Anomaly detection *)

MAX_OPERATIONS_PER_MINUTE == 20
FAILED_OPERATIONS_PERCENT == 30
TIME_WINDOW_MS == 60000
REVOKED_KEY_OPERATIONS_THRESHOLD == 2
WORKING_HOURS_START == 7
WORKING_HOURS_END == 22
MsPerHour == 3600000

InWindow(timestamp) == timestamp >= now - TIME_WINDOW_MS

\* an object a function returned, or the promise of an async function: both
\* are truthy, whatever they hold; null is not
Promise(value) == [promise |-> value]

Truthy(x) == ~IsNull(x)

detectVolumeAnomaly(operations) ==
    IF Len(operations) > MAX_OPERATIONS_PER_MINUTE
    THEN [operationCount |-> Len(operations), threshold |-> MAX_OPERATIONS_PER_MINUTE]
    ELSE Null

\* what the promise of detectFailureAnomaly resolves to
detectFailureAnomaly(userId) ==
    LET recentLogs == getAuditLogs([userId |-> userId, status |-> "FAILED",
                                    action |-> "DATA_ENCRYPT"], 20, 0)
        InWin(r) == InWindow(r.timestamp)
        logsInWindow == SelectSeq(recentLogs, InWin)
        operationsInWindow == SelectSeq(getOperationsByUser(userId, 50), InWin)
    IN  IF Len(recentLogs) = 0 THEN Null
        ELSE IF Len(logsInWindow) = 0 THEN Null
        ELSE IF /\ Len(operationsInWindow) > 0
                /\ Len(logsInWindow) * 100 >= FAILED_OPERATIONS_PERCENT * Len(operationsInWindow)
        THEN [failedOperations |-> Len(logsInWindow),
              totalOperations |-> Len(operationsInWindow)]
        ELSE Null

\* details.error && details.error.includes('not active')
IncludesNotActive(details) == details.error # NoErr /\ details.error[1] = "Key is not active"

detectRevokedKeyUsage(userId) ==
    LET logs == getAuditLogs(<<>>, 50, 0)
        Revoked(log) == /\ InWindow(log.timestamp)
                        /\ log.userId = userId
                        /\ IncludesNotActive(log.details)
        revokedKeyLogs == SelectSeq(logs, Revoked)
    IN  IF Len(revokedKeyLogs) >= REVOKED_KEY_OPERATIONS_THRESHOLD
        THEN [revokedKeyAttempts |-> Len(revokedKeyLogs),
              threshold |-> REVOKED_KEY_OPERATIONS_THRESHOLD]
        ELSE Null

\* Date.getHours()
getHours(timestamp) == (timestamp \div MsPerHour) % 24

detectTimeAnomaly(operations) ==
    LET Outside(op) == \/ getHours(op.timestamp) < WORKING_HOURS_START
                       \/ getHours(op.timestamp) >= WORKING_HOURS_END
        outsideWorkingHours == SelectSeq(operations, Outside)
    IN  IF Len(outsideWorkingHours) > 0
        THEN [operationsOutsideHours |-> Len(outsideWorkingHours)]
        ELSE Null

Anomaly(anomalyType, severity, userId) ==
    [detected |-> TRUE, anomalyType |-> anomalyType, severity |-> severity,
     timestamp |-> now, userId |-> userId]

\* an analysis that tests the failure anomaly before the volume anomaly
detectAnomaliesFailureFirst(recentOperations, userId) ==
    LET InWin(op) == InWindow(op.timestamp)
        operationsInWindow == SelectSeq(recentOperations, InWin)
        volumeAnomaly == detectVolumeAnomaly(operationsInWindow)
        failureAnomaly == Promise(detectFailureAnomaly(userId))
    IN  IF Len(recentOperations) = 0 THEN Null
        ELSE IF Truthy(failureAnomaly) THEN Anomaly("high_failure_rate", "high", userId)
        ELSE IF Truthy(volumeAnomaly) THEN Anomaly("high_volume", "medium", userId)
        ELSE Null

\* detectAnomalies after `await storage.getOperationsByUser(userId, 50)`.
\* detectFailureAnomaly is async and called without await: what is tested is
\* its promise
detectAnomalies(recentOperations, userId) ==
    LET InWin(op) == InWindow(op.timestamp)
        operationsInWindow == SelectSeq(recentOperations, InWin)
        volumeAnomaly == detectVolumeAnomaly(operationsInWindow)
        failureAnomaly == Promise(detectFailureAnomaly(userId))
        revokedKeyAnomaly == detectRevokedKeyUsage(userId)
        timeAnomaly == detectTimeAnomaly(operationsInWindow)
    IN  IF Len(recentOperations) = 0 THEN Null
        ELSE IF Truthy(volumeAnomaly) THEN Anomaly("high_volume", "medium", userId)
        ELSE IF Truthy(failureAnomaly) THEN Anomaly("high_failure_rate", "high", userId)
        ELSE IF Truthy(revokedKeyAnomaly) THEN Anomaly("revoked_key_usage", "high", userId)
        ELSE IF Truthy(timeAnomaly) THEN Anomaly("unusual_time", "low", userId)
        ELSE Null

\* an anomaly written as a failed encryption of the user
AnomalyEntryAsFailure(anomaly) ==
    AuditEntry(anomaly.userId, "DATA_ENCRYPT", anomaly.anomalyType, "FAILED",
               Details(NoErr, <<anomaly.anomalyType, anomaly.severity>>))

\* the entry recordAnomaly writes
AnomalyEntry(anomaly) ==
    AuditEntry(anomaly.userId, "ANOMALY_DETECTED", anomaly.anomalyType, "WARNING",
               Details(NoErr, <<anomaly.anomalyType, anomaly.severity>>))

-----------------------------------------------------------------------------
(* Requests *)

keyVars == <<keysStore, keyIdIndex, keyIdCounter>>
opVars == <<operationsStore, operationIdCounter>>
auditVars == <<auditLogsStore, auditLogIdCounter>>

IdleCall ==
    [op |-> "none", pc |-> "idle", userId |-> NoUser, keyId |-> 0, data |-> Null,
     resourceName |-> "", key |-> Null, key2 |-> Null, out |-> Null, todo |-> <<>>,
     count |-> 0, err |-> NoErr, result |-> Null,
     \* history: what this call appended, and whether it began after a revoke
     \* of its key had returned
     \* and, for a restore, the public ids the registry held when it began and
     \* the keys it inserted
     audits |-> {}, ops |-> {}, afterRevoke |-> FALSE, life |-> 0, before |-> {},
     made |-> {}]

IdleTask == [pc |-> "none", userId |-> NoUser, recentOperations |-> <<>>, anomaly |-> Null]

\* the requests in progress and those whose detection task still runs
InFlight ==
    {i \in CallIds : \/ calls[i].pc \notin {"idle", "done"}
                     \/ tasks[i].pc \notin {"none", "done"}}

\* requests are numbered in the order they arrive
CanStart(i) ==
    /\ calls[i].pc = "idle"
    /\ IF i = 1 THEN TRUE ELSE calls[i - 1].pc # "idle"
    /\ Cardinality(InFlight) < MaxInFlight

\* req.isAuthenticated(): the session's user
Authenticated == DOMAIN usersStore

isAdmin(u) == usersStore[u].role = "admin"

RevokeReturned(k) ==
    \E j \in CallIds : /\ calls[j].op = "revoke" /\ calls[j].pc = "done"
                       /\ calls[j].err = NoErr /\ calls[j].keyId = k
                       /\ calls[j].life = restarts

\* the call is over: its locals are gone
Return(call) ==
    [call EXCEPT !.pc = "done", !.key = Null, !.key2 = Null, !.out = Null, !.todo = <<>>,
                 !.count = 0]

Begin(i, op, u, k, data) ==
    [IdleCall EXCEPT !.op = op, !.userId = u, !.keyId = k, !.data = data,
                     !.resourceName = "text", !.afterRevoke = RevokeReturned(k),
                     !.life = restarts]

\* the admin the constructor of MemStorage creates, and the users registered
\* (POST /api/register) before the first request of the model
DefaultUsers ==
    [id \in 1..MaxUsers |->
        [id |-> id, username |-> IF id = 1 THEN "admin" ELSE "user",
         role |-> IF id = 1 THEN "admin" ELSE "user", status |-> "active",
         createdAt |-> StartTime]]

\* the USER_REGISTER record of each registration
RegisterLogs ==
    [id \in 1..(MaxUsers - 1) |->
        [id |-> id, userId |-> NoUser, action |-> "USER_REGISTER", resource |-> "user",
         status |-> "SUCCESS", ipAddress |-> "req.ip", userAgent |-> "req.headers",
         details |-> Details(NoErr, <<"user">>), timestamp |-> StartTime]]

Init ==
    /\ usersStore = DefaultUsers
    /\ keysStore = <<>>
    /\ keyIdIndex = <<>>
    /\ keyIdCounter = 1
    /\ operationsStore = <<>>
    /\ operationIdCounter = 1
    /\ auditLogsStore = RegisterLogs
    /\ auditLogIdCounter = Len(RegisterLogs) + 1
    /\ operationsCache = <<>>
    /\ now = StartTime
    /\ calls = [i \in CallIds |-> IdleCall]
    /\ tasks = [i \in CallIds |-> IdleTask]
    /\ restarts = 0

-----------------------------------------------------------------------------
(* POST /api/keys and generateKey *)

\* the switch of generateKey; i names the random bytes this call draws
KeyMaterial(algorithm, i) ==
    IF algorithm = ALGORITHMS.AES_256_CBC
    THEN Ok([key |-> toHex(randomBytes(32, i, "key"))])
    ELSE IF algorithm = ALGORITHMS.AES_128_CBC
    THEN Ok([key |-> toHex(randomBytes(16, i, "key"))])
    ELSE IF algorithm = ALGORITHMS.RSA_2048
    THEN Ok([publicKey |-> Pem("rsa-public", <<"rsa", i>>),
             privateKey |-> Pem("rsa-private", <<"rsa", i>>)])
    ELSE IF algorithm = ALGORITHMS.ECC_P256
    THEN Ok([publicKey |-> Pem("ec-public", SpkiDER(i)),
             privateKey |-> Pem("ec-private", Pkcs8DER(i))])
    ELSE Throw(Error("Unsupported algorithm", algorithm))

\* the InsertEncryptionKey generateKey stores
keyRecord(userId, name, algorithm, keyData, i) ==
    LET iv == randomBytes(16, i, "wrap")
    IN  [name |-> name, userId |-> userId, keyId |-> <<"K", now, i>>,
         algorithm |-> algorithm,
         keyData |-> encryptAES(JSONstringify(keyData), fromHex(MASTER_KEY), iv).v.encrypted,
         iv |-> toHex(iv), status |-> "active"]

\* the stored record, sent as it is
wholeKey(key) == key

\* the key as the routes send it: without keyData and iv
safeKey(key) ==
    [id |-> key.id, name |-> key.name, keyId |-> key.keyId, algorithm |-> key.algorithm,
     status |-> key.status, createdAt |-> key.createdAt, updatedAt |-> key.updatedAt,
     expiresAt |-> key.expiresAt, lastUsed |-> key.lastUsed]

RequestAlgorithms == AlgorithmValues \cup {"des"}

GenerateKey(i) ==
    \E u \in Authenticated, algorithm \in RequestAlgorithms :
        LET material == KeyMaterial(algorithm, i)
            record == keyRecord(u, "doc", algorithm, material.v, i)
            call == Begin(i, "generateKey", u, 0, Null)
        IN  /\ CanStart(i)
            /\ IF algorithm \notin AlgorithmValues
               THEN \* 400 Invalid algorithm
                    /\ calls' = [calls EXCEPT ![i] =
                           [call EXCEPT !.pc = "done", !.err = Error("Invalid algorithm", "")]]
                    /\ UNCHANGED keyVars
               ELSE IF ~material.ok
               THEN /\ calls' = [calls EXCEPT ![i] =
                           [call EXCEPT !.pc = "done", !.err = material.err]]
                    /\ UNCHANGED keyVars
               ELSE /\ createKey(record)
                    /\ calls' = [calls EXCEPT ![i] =
                           [call EXCEPT !.pc = "done", !.keyId = keyIdCounter,
                                        !.result = safeKey(NewKey(record))]]
            /\ UNCHANGED <<usersStore, opVars, auditVars, operationsCache, now, tasks, restarts>>

-----------------------------------------------------------------------------
(* POST /api/encrypt, POST /api/decrypt: encryptData, decryptData *)

Plaintexts == {String(5, <<"utf8", "hello">>), String(300, <<"utf8", "report">>)}

\* the envelopes a client can send: those it was given, and strings of its own
ForgedEnvelopes == {<<Junk>>}

HeldEnvelopes ==
    {calls[j].result.value : j \in {c \in CallIds : /\ calls[c].op = "encrypt"
                                                     /\ calls[c].pc = "done"
                                                     /\ calls[c].err = NoErr}}

\* an envelope it was given with one more ':' and a segment after it
ExtendedEnvelopes == {Append(e, Junk) : e \in HeldEnvelopes}

Envelopes == HeldEnvelopes \cup ExtendedEnvelopes \cup ForgedEnvelopes

\* a status check that lets everything but an expired key through
IsNotExpired(key) == key.status # "expired"

IsActive(key) == key.status = "active"

\* a patch that carries the whole key as the caller read it
StaleSnapshot(key) == [key EXCEPT !.lastUsed = now]

\* a patch that carries the time the key was read at, not the time of the write
LastUsedAtRead(key) == [lastUsed |-> key.updatedAt]

\* { lastUsed: new Date() }, the patch getDecryptedKey hands to updateKey
LastUsed(key) == [lastUsed |-> now]

NotActive(key) == Error("Key is not active", key.status)

\* the switch of encryptData; the envelope is given by its ':'-separated parts
EncryptDispatch(key, keyData, data, i) ==
    IF key.algorithm \in {ALGORITHMS.AES_256_CBC, ALGORITHMS.AES_128_CBC}
    THEN LET result == encryptAES(data, fromHex(keyData.key), randomBytes(16, i, "iv"))
         IN  IF result.ok THEN Ok(<<result.v.iv, result.v.encrypted>>) ELSE result
    ELSE IF key.algorithm = ALGORITHMS.RSA_2048
    THEN LET result == encryptRSA(data, keyData.publicKey)
         IN  IF result.ok THEN Ok(<<result.v>>) ELSE result
    ELSE IF key.algorithm = ALGORITHMS.ECC_P256
    THEN encryptWithECC(data, keyData.publicKey, i)
    ELSE Throw(Error("Unsupported algorithm", key.algorithm))

\* the switch of decryptData on encryptedData.split(':')
DecryptDispatch(key, keyData, parts) ==
    IF key.algorithm \in {ALGORITHMS.AES_256_CBC, ALGORITHMS.AES_128_CBC}
    THEN decryptAES(IF Len(parts) >= 2 THEN parts[2] ELSE Null,
                    fromHex(keyData.key), fromHex(parts[1]))
    ELSE IF key.algorithm = ALGORITHMS.RSA_2048
    THEN decryptRSA(parts, keyData.privateKey)
    ELSE IF key.algorithm = ALGORITHMS.ECC_P256
    THEN decryptWithECC(parts, keyData.privateKey)
    ELSE Throw(Error("Unsupported algorithm", key.algorithm))

\* one action name for both operations
DataActionEncrypt(op) == "DATA_ENCRYPT"

DataAction(op) == IF op = "encrypt" THEN "DATA_ENCRYPT" ELSE "DATA_DECRYPT"

\* a catch block that also records the failed operation
CatchRecordingOperation(i, error) ==
    /\ recordAuditLog(AuditEntry(calls[i].userId, DataAction(calls[i].op),
                                 calls[i].resourceName, "FAILED", Details(error, <<>>)))
    /\ recordOperation([userId |-> calls[i].userId, keyId |-> calls[i].keyId,
                        operation |-> calls[i].op, algorithm |-> "",
                        resourceName |-> calls[i].resourceName, status |-> "failed"])
    /\ calls' = [calls EXCEPT ![i].pc = "catch", ![i].err = error,
                              ![i].audits = @ \cup {auditLogIdCounter}]
    /\ UNCHANGED keyVars

\* the catch block up to its await: the FAILED audit record is written
Catch(i, error) ==
    /\ recordAuditLog(AuditEntry(calls[i].userId, DataAction(calls[i].op),
                                 calls[i].resourceName, "FAILED", Details(error, <<>>)))
    /\ calls' = [calls EXCEPT ![i].pc = "catch", ![i].err = error,
                              ![i].audits = @ \cup {auditLogIdCounter}]
    /\ UNCHANGED <<keyVars, opVars>>

\* the route and the first await: storage.getKey(keyId)
CryptoBegin(i, u, op, k, data) ==
    /\ CanStart(i)
    /\ calls' = [calls EXCEPT ![i] =
           [Begin(i, op, u, k, data) EXCEPT !.pc = "getKey", !.key = getKey(k)]]
    /\ UNCHANGED <<usersStore, keyVars, opVars, auditVars, operationsCache, now, tasks, restarts>>

CryptoStart(i) ==
    \E u \in Authenticated, op \in {"encrypt", "decrypt"}, k \in 1..keyIdCounter :
    \E data \in IF op = "encrypt" THEN Plaintexts ELSE Envelopes :
        CryptoBegin(i, u, op, k, data)

\* `if (!key) throw`, then getDecryptedKey up to its await storage.getKey(keyId)
CryptoResolve(i) ==
    /\ calls[i].op \in {"encrypt", "decrypt"} /\ calls[i].pc = "getKey"
    /\ IF IsNull(calls[i].key)
       THEN Catch(i, Error("Key not found", ""))
       ELSE /\ calls' = [calls EXCEPT ![i].pc = "getDecryptedKey",
                                      ![i].key2 = getKey(calls[i].keyId)]
            /\ UNCHANGED <<keyVars, opVars, auditVars>>
    /\ UNCHANGED <<usersStore, operationsCache, now, tasks, restarts>>

\* getDecryptedKey: the status check, the unwrapping under the master key, and
\* storage.updateKey(key.id, { lastUsed: new Date() })
CryptoUnwrap(i) ==
    LET key == calls[i].key2
        decrypted == decryptAES(key.keyData, fromHex(MASTER_KEY), fromHex(key.iv))
    IN  /\ calls[i].pc = "getDecryptedKey"
        /\ IF IsNull(key) THEN Catch(i, Error("Key not found", ""))
           ELSE IF ~IsActive(key) THEN Catch(i, NotActive(key))
           ELSE IF ~decrypted.ok THEN Catch(i, decrypted.err)
           ELSE /\ updateKey(key.id, LastUsed(key))
                /\ calls' = [calls EXCEPT ![i].pc = "updateKey", ![i].out = decrypted.v]
                /\ UNCHANGED <<opVars, auditVars>>
        /\ UNCHANGED <<usersStore, operationsCache, now, tasks, restarts>>

\* JSON.parse(decrypted), the switch on key.algorithm, storage.recordOperation
CryptoDispatch(i) ==
    LET key == calls[i].key
        keyData == JSONparse(calls[i].out)
        done == IF calls[i].op = "encrypt"
                THEN EncryptDispatch(key, keyData, calls[i].data, i)
                ELSE DecryptDispatch(key, keyData, calls[i].data)
    IN  /\ calls[i].op \in {"encrypt", "decrypt"} /\ calls[i].pc = "updateKey"
        /\ IF ~done.ok THEN Catch(i, done.err)
           ELSE /\ recordOperation([userId |-> calls[i].userId, keyId |-> key.id,
                                    operation |-> calls[i].op, algorithm |-> key.algorithm,
                                    resourceName |-> calls[i].resourceName,
                                    status |-> "success"])
                /\ calls' = [calls EXCEPT ![i].pc = "recordOperation", ![i].out = done.v,
                                          ![i].ops = @ \cup {operationIdCounter}]
                /\ UNCHANGED <<keyVars, auditVars>>
        /\ UNCHANGED <<usersStore, operationsCache, now, tasks, restarts>>

\* storage.recordAuditLog of the SUCCESS record
CryptoAudit(i) ==
    /\ calls[i].pc = "recordOperation"
    /\ recordAuditLog(AuditEntry(calls[i].userId, DataAction(calls[i].op),
                                 calls[i].resourceName, "SUCCESS",
                                 Details(NoErr, <<calls[i].key.algorithm, calls[i].key.keyId>>)))
    /\ calls' = [calls EXCEPT ![i].pc = "recordAuditLog",
                              ![i].audits = @ \cup {auditLogIdCounter}]
    /\ UNCHANGED <<usersStore, keyVars, opVars, operationsCache, now, tasks, restarts>>

\* detectAnomalies(userId) is called and runs to its first await
StartDetection(userId) ==
    [pc |-> "detect", userId |-> userId,
     recentOperations |-> getOperationsByUser(userId, 50), anomaly |-> Null]

\* detectAnomalies(userId).then(...) is started, not awaited; the result returns
CryptoReturn(i) ==
    /\ calls[i].pc = "recordAuditLog"
    /\ tasks' = [tasks EXCEPT ![i] = StartDetection(calls[i].userId)]
    /\ calls' = [calls EXCEPT ![i] = Return([calls[i] EXCEPT
                              !.result = [value |-> calls[i].out, status |-> "success"]])]
    /\ UNCHANGED <<usersStore, keyVars, opVars, auditVars, operationsCache, now, restarts>>

\* the catch block after its await: detection is started, the error rethrown
CryptoRethrow(i) ==
    /\ calls[i].op \in {"encrypt", "decrypt"} /\ calls[i].pc = "catch"
    /\ tasks' = [tasks EXCEPT ![i] = StartDetection(calls[i].userId)]
    /\ calls' = [calls EXCEPT ![i] = Return(calls[i])]
    /\ UNCHANGED <<usersStore, keyVars, opVars, auditVars, operationsCache, now, restarts>>

\* detectAnomalies after its await: the cache is set, the detectors run
TaskDetect(i) ==
    LET anomaly == detectAnomalies(tasks[i].recentOperations, tasks[i].userId)
    IN  /\ tasks[i].pc = "detect"
        /\ operationsCache' = MapSet(operationsCache, tasks[i].userId, tasks[i].recentOperations)
        /\ tasks' = [tasks EXCEPT ![i] =
               IF IsNull(anomaly) THEN [IdleTask EXCEPT !.pc = "done"]
               ELSE [@ EXCEPT !.pc = "record", !.recentOperations = <<>>, !.anomaly = anomaly]]
        /\ UNCHANGED <<usersStore, keyVars, opVars, auditVars, now, calls, restarts>>

\* .then(anomaly => recordAnomaly(anomaly))
TaskRecord(i) ==
    /\ tasks[i].pc = "record"
    /\ recordAuditLog(AnomalyEntry(tasks[i].anomaly))
    /\ tasks' = [tasks EXCEPT ![i] = [IdleTask EXCEPT !.pc = "done"]]
    /\ UNCHANGED <<usersStore, keyVars, opVars, operationsCache, now, calls, restarts>>

-----------------------------------------------------------------------------
(* POST /api/keys/:id/revoke and revokeKey *)

\* the route and revokeKey up to its await storage.getKey(keyId)
RevokeBegin(i, u, k) ==
    /\ CanStart(i)
    /\ calls' = [calls EXCEPT ![i] =
           [Begin(i, "revoke", u, k, Null) EXCEPT !.pc = "getKey", !.key = getKey(k)]]
    /\ UNCHANGED <<usersStore, keyVars, opVars, auditVars, operationsCache, now, tasks, restarts>>

RevokeStart(i) ==
    \E u \in Authenticated, k \in 1..keyIdCounter : RevokeBegin(i, u, k)

\* `if (!key) throw` (the route answers 500), else storage.updateKey
RevokeUpdate(i) ==
    /\ calls[i].op = "revoke" /\ calls[i].pc = "getKey"
    /\ IF IsNull(calls[i].key)
       THEN /\ calls' = [calls EXCEPT ![i] =
                   Return([calls[i] EXCEPT !.err = Error("Key not found", "")])]
            /\ UNCHANGED keyVars
       ELSE /\ updateKey(calls[i].keyId, [status |-> "revoked"])
            /\ calls' = [calls EXCEPT ![i].pc = "updateKey"]
    /\ UNCHANGED <<usersStore, opVars, auditVars, operationsCache, now, tasks, restarts>>

\* storage.recordAuditLog of KEY_REVOKE
RevokeAudit(i) ==
    /\ calls[i].op = "revoke" /\ calls[i].pc = "updateKey"
    /\ recordAuditLog(AuditEntry(calls[i].userId, "KEY_REVOKE", calls[i].key.keyId,
                                 "SUCCESS", Details(NoErr, <<calls[i].key.name>>)))
    /\ calls' = [calls EXCEPT ![i].pc = "respond", ![i].audits = @ \cup {auditLogIdCounter}]
    /\ UNCHANGED <<usersStore, keyVars, opVars, operationsCache, now, tasks, restarts>>

\* the function returns after its last await and the route answers
Respond(i) ==
    /\ calls[i].pc = "respond"
    /\ calls' = [calls EXCEPT ![i] = Return(calls[i])]
    /\ UNCHANGED <<usersStore, keyVars, opVars, auditVars, operationsCache, now, tasks, restarts>>

-----------------------------------------------------------------------------
(* POST /api/keys/backup, POST /api/keys/restore *)

BackupEntry(key) ==
    [keyId |-> key.keyId, name |-> key.name, algorithm |-> key.algorithm,
     status |-> key.status, createdAt |-> key.createdAt, keyData |-> key.keyData,
     iv |-> key.iv]

\* generateKeyBackup up to its await storage.getUserKeys(userId)
BackupStart(i) ==
    \E u \in Authenticated :
        /\ CanStart(i)
        /\ calls' = [calls EXCEPT ![i] =
               [Begin(i, "backup", u, 0, Null) EXCEPT !.pc = "getUserKeys",
                                                      !.todo = getUserKeys(u)]]
        /\ UNCHANGED <<usersStore, keyVars, opVars, auditVars, operationsCache, now, tasks, restarts>>

\* the document is built and encrypted under the master key; KEY_BACKUP is recorded
BackupBuild(i) ==
    LET keys == calls[i].todo
        backupData == [version |-> "1.0", timestamp |-> now, keys |-> [n \in 1..Len(keys) |-> BackupEntry(keys[n])]]
        iv == randomBytes(16, i, "iv")
        result == encryptAES(JSONstringify(backupData), fromHex(MASTER_KEY), iv)
    IN  /\ calls[i].pc = "getUserKeys"
        /\ IF Len(keys) = 0
           THEN /\ calls' = [calls EXCEPT ![i] =
                       Return([calls[i] EXCEPT !.err = Error("No keys found for backup", "")])]
                /\ UNCHANGED auditVars
           ELSE /\ recordAuditLog(AuditEntry(calls[i].userId, "KEY_BACKUP", "key-backup",
                                             "SUCCESS", Details(NoErr, <<Len(keys)>>)))
                /\ calls' = [calls EXCEPT ![i].pc = "respond",
                                          ![i].result = [backup |-> <<toHex(iv), result.v.encrypted>>],
                                          ![i].audits = @ \cup {auditLogIdCounter}]
        /\ UNCHANGED <<usersStore, keyVars, opVars, operationsCache, now, tasks, restarts>>

\* the backups a client can send: those it was given, and strings of its own
HeldBackups ==
    {calls[j].result.backup : j \in {c \in CallIds : /\ calls[c].op = "backup"
                                                      /\ calls[c].pc = "done"
                                                      /\ calls[c].err = NoErr}}

Backups == HeldBackups \cup {<<Junk>>}

\* backup.split(':'), decryptAES under the master key, JSON.parse, the shape check
ReadBackup(parts) ==
    LET decrypted == decryptAES(IF Len(parts) >= 2 THEN parts[2] ELSE Null,
                                fromHex(MASTER_KEY), fromHex(parts[1]))
    IN  IF ~decrypted.ok THEN decrypted
        ELSE IF ~IsJSON(decrypted.v) THEN Throw(Error("Unexpected token", ""))
        ELSE IF "keys" \notin DOMAIN JSONparse(decrypted.v)
        THEN Throw(Error("Invalid backup format", ""))
        ELSE Ok(JSONparse(decrypted.v))

\* a catch block that rethrows without a FAILED record
RestoreCatchUnaudited(i, call, error) ==
    /\ calls' = [calls EXCEPT ![i] = [call EXCEPT !.pc = "catch", !.err = error]]
    /\ UNCHANGED auditVars

\* the catch block of restoreKeyBackup up to its await
RestoreCatch(i, call, error) ==
    /\ recordAuditLog(AuditEntry(call.userId, "KEY_RESTORE", "key-backup", "FAILED",
                                 Details(error, <<>>)))
    /\ calls' = [calls EXCEPT ![i] = [call EXCEPT !.pc = "catch", !.err = error,
                                                  !.audits = @ \cup {auditLogIdCounter}]]

\* the loop of restoreKeyBackup goes on with the entries `todo`: up to the next
\* await storage.getKeyByKeyId, or past the loop to the KEY_RESTORE record
RestoreLoop(i, call, todo, count) ==
    IF Len(todo) = 0
    THEN /\ recordAuditLog(AuditEntry(call.userId, "KEY_RESTORE", "key-backup", "SUCCESS",
                                      Details(NoErr, <<count>>)))
         /\ calls' = [calls EXCEPT ![i] =
                [call EXCEPT !.pc = "respond", !.todo = todo, !.count = count,
                             !.result = [restored |-> count],
                             !.audits = @ \cup {auditLogIdCounter}]]
    ELSE /\ calls' = [calls EXCEPT ![i] =
                [call EXCEPT !.pc = "getKeyByKeyId", !.todo = todo, !.count = count,
                             !.key = getKeyByKeyId(todo[1].keyId)]]
         /\ UNCHANGED auditVars

RestoreStart(i) ==
    \E u \in Authenticated, backup \in Backups :
        LET call == [Begin(i, "restore", u, 0, backup) EXCEPT !.before = DOMAIN keyIdIndex]
            backupData == ReadBackup(backup)
        IN  /\ CanStart(i)
            /\ IF ~backupData.ok THEN RestoreCatch(i, call, backupData.err)
               ELSE RestoreLoop(i, call, backupData.v.keys, 0)
            /\ UNCHANGED <<usersStore, keyVars, opVars, operationsCache, now, tasks, restarts>>

\* `if (!existingKey)` storage.createKey of the entry, else the next entry
RestoreEntry(i) ==
    LET keyData == calls[i].todo[1]
    IN  /\ calls[i].pc = "getKeyByKeyId"
        /\ IF IsNull(calls[i].key)
           THEN /\ createKey([userId |-> calls[i].userId, keyId |-> keyData.keyId,
                              name |-> keyData.name, algorithm |-> keyData.algorithm,
                              keyData |-> keyData.keyData, iv |-> keyData.iv,
                              status |-> keyData.status])
                /\ calls' = [calls EXCEPT ![i].pc = "createKey",
                                          ![i].made = @ \cup {keyIdCounter}]
                /\ UNCHANGED auditVars
           ELSE /\ RestoreLoop(i, calls[i], Tail(calls[i].todo), calls[i].count)
                /\ UNCHANGED keyVars
        /\ UNCHANGED <<usersStore, opVars, operationsCache, now, tasks, restarts>>

\* restoredCount++ and the next entry
RestoreCreated(i) ==
    /\ calls[i].pc = "createKey"
    /\ RestoreLoop(i, calls[i], Tail(calls[i].todo), calls[i].count + 1)
    /\ UNCHANGED <<usersStore, keyVars, opVars, operationsCache, now, tasks, restarts>>

\* the catch block after its await: the error is rethrown
RestoreRethrow(i) ==
    /\ calls[i].op = "restore" /\ calls[i].pc = "catch"
    /\ calls' = [calls EXCEPT ![i] = Return(calls[i])]
    /\ UNCHANGED <<usersStore, keyVars, opVars, auditVars, operationsCache, now, tasks, restarts>>

-----------------------------------------------------------------------------
(* GET /api/keys, POST /api/security/alerts/clear *)

ListKeys(i) ==
    \E u \in Authenticated :
        /\ CanStart(i)
        /\ calls' = [calls EXCEPT ![i] =
               [Begin(i, "listKeys", u, 0, Null) EXCEPT !.pc = "done",
                    !.result = [n \in 1..Len(getUserKeys(u)) |-> safeKey(getUserKeys(u)[n])]]]
        /\ UNCHANGED <<usersStore, keyVars, opVars, auditVars, operationsCache, now, tasks, restarts>>

\* a reset that leaves the cache as it is
resetNothing(userId) == operationsCache' = operationsCache

\* operationsCache.delete(userId)
resetAnomalyDetection(userId) ==
    operationsCache' = [u \in DOMAIN operationsCache \ {userId} |-> operationsCache[u]]

\* body.userId: absent (0), or a user id
ClearAlerts(i) ==
    \E u \in Authenticated, userId \in {0} \cup DOMAIN usersStore :
        LET targetUserId == IF isAdmin(u) /\ userId # 0 THEN userId ELSE u
        IN  /\ CanStart(i)
            /\ resetAnomalyDetection(targetUserId)
            /\ recordAuditLog([userId |-> u, action |-> "ALERTS_CLEARED",
                               resource |-> targetUserId, status |-> "SUCCESS",
                               ipAddress |-> "req.ip", userAgent |-> "req.headers",
                               details |-> Details(NoErr, <<IF isAdmin(u) THEN "admin" ELSE "self">>)])
            /\ calls' = [calls EXCEPT ![i] =
                   [Begin(i, "clearAlerts", u, targetUserId, Null)
                        EXCEPT !.pc = "respond", !.audits = {auditLogIdCounter}]]
            /\ UNCHANGED <<usersStore, keyVars, opVars, now, tasks, restarts>>

-----------------------------------------------------------------------------
(* The process ends and is started again: MemStorage and the operations cache
   are built anew (and the users register again); MASTER_KEY comes from the
   environment and stays.  What the clients were sent stays with them.
   Restarts are followed when no request is in progress and some client
   holds a backup, the one thing a later request can bring back. *)

Restart ==
    /\ InFlight = {}
    /\ restarts < MaxRestarts
    /\ HeldBackups # {}
    /\ restarts' = restarts + 1
    /\ usersStore' = DefaultUsers
    /\ keysStore' = <<>>
    /\ keyIdIndex' = <<>>
    /\ keyIdCounter' = 1
    /\ operationsStore' = <<>>
    /\ operationIdCounter' = 1
    /\ auditLogsStore' = RegisterLogs
    /\ auditLogIdCounter' = Len(RegisterLogs) + 1
    /\ operationsCache' = <<>>
    /\ UNCHANGED <<now, calls, tasks>>

Next ==
    \/ Restart
    \/ \E i \in CallIds :
        \/ GenerateKey(i)
        \/ CryptoStart(i)
        \/ CryptoResolve(i)
        \/ CryptoUnwrap(i)
        \/ CryptoDispatch(i)
        \/ CryptoAudit(i)
        \/ CryptoReturn(i)
        \/ CryptoRethrow(i)
        \/ TaskDetect(i)
        \/ TaskRecord(i)
        \/ RevokeStart(i)
        \/ RevokeUpdate(i)
        \/ RevokeAudit(i)
        \/ Respond(i)
        \/ BackupStart(i)
        \/ BackupBuild(i)
        \/ RestoreStart(i)
        \/ RestoreEntry(i)
        \/ RestoreCreated(i)
        \/ RestoreRethrow(i)
        \/ ListKeys(i)
        \/ ClearAlerts(i)

Spec == Init /\ [][Next]_vars

-----------------------------------------------------------------------------
(* Backup and restore, begun where one user holds a key of each family.
   generateKey leaves nothing but the key in the stores, so the stores are
   those of Init with the keys of three earlier POST /api/keys requests; a
   key revoked since has its KEY_REVOKE record. *)

Families == <<ALGORITHMS.AES_256_CBC, ALGORITHMS.RSA_2048, ALGORITHMS.ECC_P256>>

\* the keys that may have been revoked since
Revocable == {2}

\* the key the n-th of the earlier requests stored
EarlierKey(n, owner, status) ==
    LET i == MaxCalls + n
        record == keyRecord(owner, "doc", Families[n], KeyMaterial(Families[n], i).v, i)
    IN  [NewKey(record) EXCEPT !.id = n, !.status = status]

InitBackup ==
    /\ now = StartTime
    /\ usersStore = DefaultUsers
    /\ keyIdCounter = Len(Families) + 1
    /\ \E owner \in DOMAIN DefaultUsers, revoked \in SUBSET Revocable :
           /\ keysStore = [n \in 1..Len(Families) |->
                              EarlierKey(n, owner, IF n \in revoked THEN "revoked" ELSE "active")]
           /\ auditLogIdCounter = Len(RegisterLogs) + 1 + Cardinality(revoked)
           /\ auditLogsStore =
                 [id \in 1..(Len(RegisterLogs) + Cardinality(revoked)) |->
                     IF id <= Len(RegisterLogs) THEN RegisterLogs[id]
                     ELSE LET key == keysStore[CHOOSE n \in revoked : TRUE]
                          IN  [NewAuditLog(AuditEntry(owner, "KEY_REVOKE", key.keyId, "SUCCESS",
                                                      Details(NoErr, <<key.name>>)))
                                  EXCEPT !.id = id]]
    /\ keyIdIndex = [k \in {keysStore[n].keyId : n \in DOMAIN keysStore} |->
                        CHOOSE n \in DOMAIN keysStore : keysStore[n].keyId = k]
    /\ operationsStore = <<>>
    /\ operationIdCounter = 1
    /\ operationsCache = <<>>
    /\ calls = [i \in CallIds |-> IdleCall]
    /\ tasks = [i \in CallIds |-> IdleTask]
    /\ restarts = 0

\* a user who restored a backup encrypts or decrypts with a key it brought in
UseRestored(i) ==
    \E j \in CallIds, k \in DOMAIN keysStore, op \in {"encrypt", "decrypt"} :
    \E data \in IF op = "encrypt" THEN {String(5, <<"utf8", "hello">>)}
                 ELSE HeldEnvelopes \cup ForgedEnvelopes :
        /\ calls[j].op = "restore" /\ calls[j].pc = "done" /\ calls[j].err = NoErr
        /\ calls[j].life = restarts
        /\ keysStore[k].userId = calls[j].userId
        /\ keysStore[k].keyId \notin calls[j].before
        /\ CryptoBegin(i, calls[j].userId, op, k, data)

NextBackup ==
    \/ Restart
    \/ \E i \in CallIds :
        \/ BackupStart(i)
        \/ BackupBuild(i)
        \/ RestoreStart(i)
        \/ RestoreEntry(i)
        \/ RestoreCreated(i)
        \/ RestoreRethrow(i)
        \/ Respond(i)
        \/ UseRestored(i)
        \/ CryptoResolve(i)
        \/ CryptoUnwrap(i)
        \/ CryptoDispatch(i)
        \/ CryptoAudit(i)
        \/ CryptoReturn(i)
        \/ CryptoRethrow(i)
        \/ TaskDetect(i)
        \/ TaskRecord(i)

SpecBackup == InitBackup /\ [][NextBackup]_vars

-----------------------------------------------------------------------------
(* Concurrent use of the keys while the clock moves on. new Date() reads the
   wall clock, which does not go back; the stores begin as in InitBackup. *)

Tick ==
    /\ now < StartTime + MaxTicks * TickMs
    /\ now' = now + TickMs
    /\ UNCHANGED <<usersStore, keyVars, opVars, auditVars, operationsCache, calls, tasks, restarts>>

\* the null the catch block of detectAnomalies returns
Caught == [null |-> TRUE, caught |-> TRUE]

\* something in the try block of detectAnomalies throws: the catch block logs
\* the error and returns null, and nothing is recorded
TaskFail(i) ==
    /\ tasks[i].pc = "detect"
    /\ tasks' = [tasks EXCEPT ![i] = [IdleTask EXCEPT !.pc = "done", !.anomaly = Caught]]
    /\ UNCHANGED <<usersStore, keyVars, opVars, auditVars, operationsCache, now, calls, restarts>>

\* the keys the concurrent calls are made on
SharedKeys == {1}

\* the owner of a shared key encrypts or decrypts with it
UseKey(i) ==
    \E k \in SharedKeys, op \in {"encrypt", "decrypt"} :
    \E data \in IF op = "encrypt" THEN {String(5, <<"utf8", "hello">>)}
                 ELSE HeldEnvelopes \cup ForgedEnvelopes :
        CryptoBegin(i, keysStore[k].userId, op, k, data)

\* the owner of a shared key revokes it
RevokeKey(i) ==
    \E k \in SharedKeys : RevokeBegin(i, keysStore[k].userId, k)

NextClock ==
    \/ Tick
    \/ \E i \in CallIds :
        \/ UseKey(i)
        \/ CryptoResolve(i)
        \/ CryptoUnwrap(i)
        \/ CryptoDispatch(i)
        \/ CryptoAudit(i)
        \/ CryptoReturn(i)
        \/ CryptoRethrow(i)
        \/ TaskDetect(i)
        \/ TaskRecord(i)
        \/ TaskFail(i)
        \/ RevokeKey(i)
        \/ RevokeUpdate(i)
        \/ RevokeAudit(i)
        \/ Respond(i)

\* user 1 holds the three keys, none of them revoked
InitClock ==
    /\ InitBackup
    /\ \A id \in DOMAIN keysStore : keysStore[id].userId = 1 /\ keysStore[id].status = "active"

SpecClock == InitClock /\ [][NextClock]_vars

-----------------------------------------------------------------------------
(* GET /api/security/alerts *)

\* the filters of the route; query.userId is absent (0) or a user id
AlertFilters(u, userId) ==
    IF ~isAdmin(u) THEN [action |-> "ANOMALY_DETECTED", userId |-> u]
    ELSE IF userId # 0 THEN [action |-> "ANOMALY_DETECTED", userId |-> userId]
    ELSE [action |-> "ANOMALY_DETECTED"]

\* the alert the route makes of an audit record
Alert(log) ==
    [id |-> log.id, timestamp |-> log.timestamp, type |-> log.resource,
     severity |-> IF Len(log.details.info) >= 2 THEN log.details.info[2] ELSE "medium",
     user |-> log.userId]

AlertsBegin(i, u, userId) ==
    LET logs == getAuditLogs(AlertFilters(u, userId), 50, 0)
    IN  /\ CanStart(i)
        /\ calls' = [calls EXCEPT ![i] =
               [Begin(i, "alerts", u, userId, Null) EXCEPT !.pc = "done",
                    !.result = [n \in 1..Len(logs) |-> Alert(logs[n])]]]
        /\ UNCHANGED <<usersStore, keyVars, opVars, auditVars, operationsCache, now, tasks, restarts>>

-----------------------------------------------------------------------------
(* GET /api/users, behind ensureAdmin *)

listUsers == {usersStore[id] : id \in DOMAIN usersStore}

\* ensureAdmin answers 403 to a user who is not an admin and the route never
\* runs; else the route sends the users
UsersBegin(i, u) ==
    /\ CanStart(i)
    /\ calls' = [calls EXCEPT ![i] =
           IF ~isAdmin(u)
           THEN [Begin(i, "listUsers", u, 0, Null) EXCEPT !.pc = "done",
                     !.err = Error("Access denied", "")]
           ELSE [Begin(i, "listUsers", u, 0, Null) EXCEPT !.pc = "done",
                     !.result = listUsers]]
    /\ UNCHANGED <<usersStore, keyVars, opVars, auditVars, operationsCache, now, tasks, restarts>>

-----------------------------------------------------------------------------
(* GET /api/logs *)

\* the filters the route makes of the query; a parameter that is absent is 0 or ""
LogFilters(u, query) ==
    LET who == IF ~isAdmin(u) THEN [userId |-> u]
               ELSE IF query.userId # 0 THEN [userId |-> query.userId]
               ELSE <<>>
        what == IF query.action # "" THEN [action |-> query.action] ELSE <<>>
        how == IF query.status # "" THEN [status |-> query.status] ELSE <<>>
    IN  Spread(Spread(who, what), how)

\* storage.getAuditLogs(filters, limit, offset) and storage.countAuditLogs(filters)
LogsBegin(i, u, query) ==
    LET filters == LogFilters(u, query)
        offset == (query.page - 1) * query.limit
    IN  /\ CanStart(i)
        /\ calls' = [calls EXCEPT ![i] =
               [Begin(i, "logs", u, 0, query) EXCEPT !.pc = "done",
                    !.result = [logs |-> getAuditLogs(filters, query.limit, offset),
                                total |-> countAuditLogs(filters)]]]
        /\ UNCHANGED <<usersStore, keyVars, opVars, auditVars, operationsCache, now, tasks, restarts>>

-----------------------------------------------------------------------------
(* One client at work: a user who holds an active and a revoked key sends one
   request after the other, each when the one before was answered and its
   analysis was over: first encryptions that fail, then encryptions that
   succeed, a second apart, and queries in between.  The session is held by
   day or, the clock having moved on, by night. *)

MaxEncryptions == 25     \* the encryptions that succeed
MaxFailed == 3           \* the encryptions that fail
OvernightHours == 14     \* from StartTime into the night
MaxPage == 2             \* the pages of audit records asked for
PageLimit == 2           \* the records of a page

SessionCalls == {1}

\* user 2, not an admin, holds three keys, the second of them revoked
InitSession ==
    /\ InitBackup
    /\ \A id \in DOMAIN keysStore :
           /\ keysStore[id].userId = MaxUsers
           /\ keysStore[id].status = IF id \in Revocable THEN "revoked" ELSE "active"

SessionUser == keysStore[1].userId

FailedLogs == getAuditLogs([userId |-> SessionUser, status |-> "FAILED"], MAX_SAFE_INTEGER, 0)

Overnight ==
    /\ now = StartTime
    /\ operationsStore = <<>> /\ Len(FailedLogs) = 0
    /\ \A i \in SessionCalls : calls[i].pc = "idle"
    /\ now' = now + OvernightHours * MsPerHour
    /\ UNCHANGED <<usersStore, keyVars, opVars, auditVars, operationsCache, calls, tasks, restarts>>

\* an encryption with the revoked key
EncryptRevoked(i) ==
    /\ operationsStore = <<>> /\ Len(FailedLogs) < MaxFailed
    /\ \E k \in Revocable : CryptoBegin(i, SessionUser, "encrypt", k, String(5, <<"utf8", "hello">>))

\* a decryption with the revoked key
DecryptRevoked(i) ==
    /\ operationsStore = <<>> /\ Len(FailedLogs) < MaxFailed
    /\ \E k \in Revocable, data \in ForgedEnvelopes :
           CryptoBegin(i, SessionUser, "decrypt", k, data)

\* an encryption with a key id that names no key
EncryptMissing(i) ==
    /\ operationsStore = <<>> /\ Len(FailedLogs) < MaxFailed
    /\ CryptoBegin(i, SessionUser, "encrypt", keyIdCounter, String(5, <<"utf8", "hello">>))

\* an encryption with the active AES key of the user: by the user, or, in
\* another session, by the admin, whom encryptData lets use it
EncryptActive(i) ==
    \E u \in {SessionUser, 1} :
        /\ Cardinality(DOMAIN operationsStore) < MaxEncryptions
        /\ \A id \in DOMAIN operationsStore : operationsStore[id].userId = u
        /\ CryptoBegin(i, u, "encrypt", 1, String(5, <<"utf8", "hello">>))

\* the user asks for its alerts
SecurityAlerts(i) ==
    /\ \A id \in DOMAIN keysStore : keysStore[id].userId = SessionUser
    /\ AlertsBegin(i, SessionUser, 0)

\* the user asks for the list of the users
ListUsers(i) ==
    /\ ~isAdmin(SessionUser)
    /\ UsersBegin(i, SessionUser)

\* the user asks for a page of its audit records
QueryLogs(i) ==
    \E filter \in {<<"", "">>, <<"DATA_ENCRYPT", "FAILED">>}, page \in 1..MaxPage :
        LogsBegin(i, SessionUser, [userId |-> 0, action |-> filter[1], status |-> filter[2],
                                   page |-> page, limit |-> PageLimit])

\* the request was answered and its analysis is over: the next one takes its
\* place, TickMs after an encryption or decryption, at once after a query
NextRequest(i) ==
    /\ calls[i].pc = "done" /\ tasks[i].pc \in {"none", "done"}
    /\ calls' = [calls EXCEPT ![i] = IdleCall]
    /\ tasks' = [tasks EXCEPT ![i] = IdleTask]
    /\ now' = IF tasks[i].pc = "done" THEN now + TickMs ELSE now
    /\ UNCHANGED <<usersStore, keyVars, opVars, auditVars, operationsCache, restarts>>

NextSession ==
    \/ Overnight
    \/ \E i \in SessionCalls :
        \/ EncryptRevoked(i)
        \/ EncryptMissing(i)
        \/ DecryptRevoked(i)
        \/ EncryptActive(i)
        \/ CryptoResolve(i)
        \/ CryptoUnwrap(i)
        \/ CryptoDispatch(i)
        \/ CryptoAudit(i)
        \/ CryptoReturn(i)
        \/ CryptoRethrow(i)
        \/ TaskDetect(i)
        \/ TaskRecord(i)
        \/ SecurityAlerts(i)
        \/ ListUsers(i)
        \/ QueryLogs(i)
        \/ NextRequest(i)

SpecSession == InitSession /\ [][NextSession]_vars

-----------------------------------------------------------------------------
(* Properties *)

\* the call belongs to the running process: what it appended is in the stores
ThisLife(i) == calls[i].life = restarts

CryptoOps == {"encrypt", "decrypt"}

\* the operations the audit trail has to cover
PublicOps == {"generateKey", "revoke", "encrypt", "decrypt", "backup", "restore",
              "clearAlerts"}

Returned(i) == calls[i].pc = "done"

Failed(i) == Returned(i) /\ calls[i].err # NoErr

\* the action an operation's own audit record carries
OwnAction(op) ==
    IF op \in CryptoOps THEN DataAction(op)
    ELSE IF op = "restore" THEN "KEY_RESTORE"
    ELSE IF op = "backup" THEN "KEY_BACKUP"
    ELSE IF op = "revoke" THEN "KEY_REVOKE"
    ELSE IF op = "clearAlerts" THEN "ALERTS_CLEARED"
    ELSE "KEY_CREATE"

\* record `id` of the log is the FAILED record of call i, as the call is in state c
IsFailedRecordOf(log, c) ==
    /\ log.action = OwnAction(c.op)
    /\ log.status = "FAILED"
    /\ log.userId = c.userId
    /\ log.details.error = c.err
    /\ log.details.error # NoErr

\* C1: an encrypt or decrypt call that starts after a revoke of its key has
\* returned gets no further than the status check of getDecryptedKey: it ends
\* with "Key is not active", returns no ciphertext or plaintext and records no
\* operation, whatever the key's algorithm and whoever calls.
RevokedKeyRefused ==
    \A i \in CallIds :
        calls[i].op \in CryptoOps /\ calls[i].afterRevoke =>
            /\ calls[i].pc \in {"getKey", "getDecryptedKey", "catch", "done"}
            /\ calls[i].pc \in {"catch", "done"} =>
                   calls[i].err = Error("Key is not active", "revoked")
            /\ IsNull(calls[i].result)
            /\ IsNull(calls[i].out)
            /\ calls[i].ops = {}

\* a call by a user who is not the one who revoked the key has come back
RevokedKeyRefusedWitness ==
    \E i, j \in CallIds :
        /\ calls[i].op \in CryptoOps /\ calls[i].afterRevoke /\ Returned(i)
        /\ calls[j].op = "revoke" /\ Returned(j) /\ calls[j].keyId = calls[i].keyId
        /\ calls[j].userId # calls[i].userId

\* C2: within the life of the process no step takes a key whose status is
\* revoked or expired back to active: the key stays in the registry and its
\* status is not active in the next state.
KeyStatusMonotonic ==
    [][restarts' = restarts =>
          \A id \in DOMAIN keysStore :
              keysStore[id].status \in {"revoked", "expired"} =>
                  /\ id \in DOMAIN keysStore'
                  /\ keysStore'[id].status # "active"]_vars

\* a key revoked while an encrypt or decrypt call on it had already read it as
\* active: the call went on to write lastUsed, and the key is still revoked
KeyStatusMonotonicWitness ==
    \E i \in CallIds :
        /\ calls[i].op \in CryptoOps /\ ThisLife(i) /\ ~calls[i].afterRevoke
        /\ calls[i].pc = "updateKey"
        /\ RevokeReturned(calls[i].keyId)
        /\ keysStore[calls[i].keyId].status = "revoked"

\* C3: no DATA_ENCRYPT or DATA_DECRYPT record with status SUCCESS is appended
\* for a key whose status is already revoked when the record is appended.
NoSuccessAfterRevocation ==
    [][\A id \in DOMAIN auditLogsStore' \ DOMAIN auditLogsStore :
          LET log == auditLogsStore'[id]
              key == getKeyByKeyId(log.details.info[2])
          IN  log.action \in {"DATA_ENCRYPT", "DATA_DECRYPT"} /\ log.status = "SUCCESS"
                  => key.status # "revoked"]_vars

\* C4: a caller who is no admin does not see, revoke or use a key of another
\* user: its key list holds its own keys only, its revoke of such a key does not
\* reach the update, and its encrypt or decrypt with such a key does not succeed.
OwnKeysOnly ==
    \A i \in CallIds :
        LET u == calls[i].userId
            k == calls[i].keyId
            foreign == k \in DOMAIN keysStore /\ keysStore[k].userId # u
        IN  ThisLife(i) /\ calls[i].op # "none" /\ ~isAdmin(u) =>
                /\ calls[i].op = "listKeys" =>
                       \A n \in DOMAIN calls[i].result :
                           keysStore[calls[i].result[n].id].userId = u
                /\ calls[i].op = "revoke" /\ foreign =>
                       /\ calls[i].pc \notin {"updateKey", "respond"}
                       /\ Returned(i) => calls[i].err # NoErr
                /\ calls[i].op \in CryptoOps /\ foreign =>
                       /\ calls[i].pc \notin {"recordOperation", "recordAuditLog"}
                       /\ Returned(i) => calls[i].err # NoErr

\* C5: every call of a public operation that has returned, with a result or
\* with an error, has appended exactly one audit record.
AuditTotality ==
    \A i \in CallIds :
        calls[i].op \in PublicOps /\ Returned(i) => Cardinality(calls[i].audits) = 1

\* C6: within the life of the process every step keeps each audit record as it
\* is, and a record it appends carries an id of its own that is greater than the
\* id of every record already there.
AuditLogAppendOnly ==
    [][restarts' = restarts =>
          /\ \A id \in DOMAIN auditLogsStore :
                 /\ id \in DOMAIN auditLogsStore'
                 /\ auditLogsStore'[id] = auditLogsStore[id]
          /\ \A id \in DOMAIN auditLogsStore' :
                 /\ auditLogsStore'[id].id = id
                 /\ id \notin DOMAIN auditLogsStore =>
                        \A old \in DOMAIN auditLogsStore : auditLogsStore[old].id < id]_vars

\* the log holds the records of two requests that overlapped and a record of a
\* background detection task
AuditLogAppendOnlyWitness ==
    /\ \E id \in DOMAIN auditLogsStore : auditLogsStore[id].action = "ANOMALY_DETECTED"
    /\ \E i, j \in CallIds :
           /\ i # j /\ ThisLife(i) /\ ThisLife(j)
           /\ calls[i].audits # {} /\ calls[j].audits # {}
           /\ calls[i].pc \notin {"idle", "done"}

\* C7: every call of a public operation that has returned an error has appended
\* exactly one audit record, which has status FAILED and carries the error.
FailureAlwaysAudited ==
    \A i \in CallIds :
        calls[i].op \in PublicOps /\ Failed(i) =>
            \E id \in calls[i].audits :
                /\ calls[i].audits = {id}
                /\ ThisLife(i) =>
                       /\ id \in DOMAIN auditLogsStore
                       /\ IsFailedRecordOf(auditLogsStore[id], calls[i])

\* C8: an encrypt or decrypt call that has failed returned its error and no
\* result, recorded no operation, appended exactly one record, DATA_ENCRYPT or
\* DATA_DECRYPT with status FAILED and the error, and started the detection for
\* its user; the stores hold one FAILED record for each failure and one
\* operation for each call that got past its dispatch.
CryptoFailureAudited ==
    /\ \A i \in CallIds :
           calls[i].op \in CryptoOps /\ Failed(i) =>
               /\ IsNull(calls[i].result)
               /\ calls[i].ops = {}
               /\ tasks[i].pc # "none"
               /\ tasks[i].pc # "done" => tasks[i].userId = calls[i].userId
               /\ \E id \in calls[i].audits :
                      /\ calls[i].audits = {id}
                      /\ ThisLife(i) =>
                             /\ id \in DOMAIN auditLogsStore
                             /\ IsFailedRecordOf(auditLogsStore[id], calls[i])
    /\ Cardinality({id \in DOMAIN auditLogsStore :
                        /\ auditLogsStore[id].action \in {"DATA_ENCRYPT", "DATA_DECRYPT"}
                        /\ auditLogsStore[id].status = "FAILED"})
         = Cardinality({i \in CallIds : /\ calls[i].op \in CryptoOps /\ ThisLife(i)
                                         /\ calls[i].err # NoErr})
    /\ Cardinality(DOMAIN operationsStore)
         = Cardinality({i \in CallIds :
                            /\ calls[i].op \in CryptoOps /\ ThisLife(i)
                            /\ calls[i].err = NoErr
                            /\ calls[i].pc \in {"recordOperation", "recordAuditLog", "done"}})

\* one call failed in the dispatch of its algorithm, another in resolving its key
CryptoFailureAuditedWitness ==
    \E i, j \in CallIds :
        /\ calls[i].op \in CryptoOps /\ Failed(i) /\ ThisLife(i)
        /\ calls[i].err[1] \notin {"Key not found", "Key is not active"}
        /\ calls[j].op \in CryptoOps /\ Failed(j) /\ ThisLife(j)
        /\ calls[j].err[1] = "Key not found"

\* C9: in the step in which an encrypt, decrypt or restore call returns an
\* error, the FAILED record of that call is in the audit store already.
FailureAuditBeforeError ==
    [][\A i \in CallIds :
          /\ ~Returned(i)
          /\ calls'[i].pc = "done"
          /\ calls'[i].op \in CryptoOps \cup {"restore"}
          /\ calls'[i].err # NoErr
          => \E id \in DOMAIN auditLogsStore :
                 /\ id \in calls'[i].audits
                 /\ IsFailedRecordOf(auditLogsStore[id], calls'[i])]_vars

\* a restore and a decrypt have both returned an error
FailureAuditBeforeErrorWitness ==
    \E i, j \in CallIds :
        /\ calls[i].op = "restore" /\ Failed(i)
        /\ calls[j].op = "decrypt" /\ Failed(j)

\* what a key of the algorithm can encrypt: RSA with PKCS#1 padding takes at
\* most the modulus less the padding
Admissible(algorithm, data) ==
    algorithm = ALGORITHMS.RSA_2048 => data.bytes <= RSAModulusBytes - RSAPkcs1Overhead

\* C10: an encrypt call with a key of any of the four algorithms and a plaintext
\* of admissible length, when the key is there and active, returns an envelope,
\* and a decrypt call with that envelope and the same key, when the key is
\* still active, returns the plaintext.
RoundTrip ==
    \A i \in CallIds :
        LET k == calls[i].keyId
            refused == {"Key not found", "Key is not active"}
        IN  /\ calls[i].op = "encrypt" /\ Returned(i) /\ ThisLife(i)
            /\ calls[i].err[1] \notin refused
            /\ Admissible(keysStore[k].algorithm, calls[i].data)
            => /\ calls[i].err = NoErr
               /\ \A j \in CallIds :
                      /\ calls[j].op = "decrypt" /\ Returned(j) /\ ThisLife(j)
                      /\ calls[j].keyId = k
                      /\ calls[j].data = calls[i].result.value
                      /\ calls[j].err[1] \notin refused
                      => /\ calls[j].err = NoErr
                         /\ calls[j].result.value = calls[i].data

\* the number of ':'-separated segments an envelope of the algorithm has
RequiredSegments(algorithm) ==
    IF algorithm = ALGORITHMS.RSA_2048 THEN 1
    ELSE IF algorithm = ALGORITHMS.ECC_P256 THEN 3
    ELSE 2

\* C11: a decrypt call that returns a plaintext was given an envelope with
\* exactly the number of segments its key's algorithm requires; an envelope
\* with more or fewer segments is rejected with an error.
EnvelopeDiscipline ==
    \A i \in CallIds :
        /\ calls[i].op = "decrypt" /\ Returned(i) /\ ThisLife(i)
        /\ calls[i].keyId \in DOMAIN keysStore
        /\ Len(calls[i].data) # RequiredSegments(keysStore[calls[i].keyId].algorithm)
        => calls[i].err # NoErr

\* the entries of the artifact a restore call was given
Entries(i) ==
    LET backupData == ReadBackup(calls[i].data)
    IN  IF backupData.ok THEN backupData.v.keys ELSE <<>>

\* the entries whose public id the registry did not hold when the call began
AbsentBefore(i) == {n \in DOMAIN Entries(i) : Entries(i)[n].keyId \notin calls[i].before}

Restored(i) == calls[i].op = "restore" /\ Returned(i) /\ calls[i].err = NoErr

BackupCycle ==
    \A i \in CallIds :
        /\ Restored(i) /\ ThisLife(i)
        /\ Len(Entries(i)) = 3
        /\ \E j \in CallIds : /\ calls[j].op = "backup" /\ Returned(j) /\ ThisLife(j)
                              /\ calls[j].err = NoErr
                              /\ calls[j].userId # calls[i].userId
                              /\ calls[j].result.backup = calls[i].data
        /\ \A id \in DOMAIN keysStore :
               keysStore[id].keyId \in calls[i].before => keysStore[id].userId # calls[i].userId
        => /\ calls[i].result.restored = 3
           /\ Cardinality({id \in DOMAIN keysStore : keysStore[id].userId = calls[i].userId}) = 3

\* C14: every key record a restore inserted carries the public id, algorithm,
\* status and wrapped material of an entry of the artifact and belongs to the
\* user who restored; an encrypt or decrypt call with a key that was restored
\* as revoked ends with "Key is not active" and returns nothing.
RestorePreservesEntry ==
    /\ \A i \in CallIds : \A id \in calls[i].made :
           ThisLife(i) =>
               /\ keysStore[id].userId = calls[i].userId
               /\ \E n \in DOMAIN Entries(i) :
                      LET e == Entries(i)[n]
                      IN  /\ keysStore[id].keyId = e.keyId
                          /\ keysStore[id].algorithm = e.algorithm
                          /\ keysStore[id].status = e.status
                          /\ keysStore[id].keyData = e.keyData
                          /\ keysStore[id].iv = e.iv
    /\ \A j \in CallIds :
           /\ calls[j].op \in CryptoOps /\ Returned(j) /\ ThisLife(j)
           /\ calls[j].keyId \in DOMAIN keysStore
           /\ keysStore[calls[j].keyId].status = "revoked"
           => /\ calls[j].err = Error("Key is not active", "revoked")
              /\ IsNull(calls[j].result)

\* a key exported as revoked was restored, and a call with it has come back
RestorePreservesEntryWitness ==
    \E i, j \in CallIds :
        /\ Restored(i) /\ ThisLife(i)
        /\ calls[j].op \in CryptoOps /\ Returned(j) /\ ThisLife(j)
        /\ calls[j].keyId \in calls[i].made
        /\ keysStore[calls[j].keyId].status = "revoked"

\* C15: no two key records share a public id.
PublicIdUnique ==
    \A a, b \in DOMAIN keysStore : a # b => keysStore[a].keyId # keysStore[b].keyId

\* C16: no step lowers the lastUsed of a key record or sets it back to null,
\* whatever the interleaving of the encrypt, decrypt and revoke calls on it.
LastUsedMonotonic ==
    [][\A id \in DOMAIN keysStore :
          /\ id \in DOMAIN keysStore'
          /\ keysStore'[id].lastUsed >= keysStore[id].lastUsed
          /\ keysStore[id].lastUsed # NullDate => keysStore'[id].lastUsed # NullDate]_vars

\* a call has just written lastUsed over a value an earlier call had written
\* at an earlier time, while another call on the same key still holds a
\* record read before that write
LastUsedMonotonicWitness ==
    \E i, j \in CallIds : \E k \in DOMAIN keysStore :
        /\ i # j /\ calls[i].keyId = k /\ calls[j].keyId = k
        /\ calls[j].op \in CryptoOps /\ calls[j].pc = "updateKey"
        /\ calls[j].key2.lastUsed # NullDate
        /\ keysStore[k].lastUsed > calls[j].key2.lastUsed
        /\ calls[i].op \in CryptoOps /\ calls[i].pc = "getDecryptedKey"
        /\ ~IsNull(calls[i].key2)
        /\ calls[i].key2.lastUsed < keysStore[k].lastUsed

\* the step in which the analysis of request i gives its verdict
Analysed(i) == tasks[i].pc = "detect" /\ tasks'[i].pc # "detect"

\* the type of the anomaly the analysis returned
VerdictType(i) == IF IsNull(tasks'[i].anomaly) THEN "none" ELSE tasks'[i].anomaly.anomalyType

\* the operations of the user in the window
OperationsInWindow(userId) ==
    LET InWin(op) == InWindow(op.timestamp)
    IN  SelectSeq(getOperationsByUser(userId, 50), InWin)

\* the trigger conditions: what each detector finds in the stores
VolumeHolds(userId) == Truthy(detectVolumeAnomaly(OperationsInWindow(userId)))
FailureHolds(userId) == Truthy(detectFailureAnomaly(userId))
RevokedHolds(userId) == Truthy(detectRevokedKeyUsage(userId))
TimeHolds(userId) == Truthy(detectTimeAnomaly(OperationsInWindow(userId)))

FirstHit(userId) ==
    IF VolumeHolds(userId) THEN "high_volume"
    ELSE IF FailureHolds(userId) THEN "high_failure_rate"
    ELSE IF RevokedHolds(userId) THEN "revoked_key_usage"
    ELSE IF TimeHolds(userId) THEN "unusual_time"
    ELSE "none"

\* C17: an analysis returns the anomaly of the first detector, in the order
\* high_volume, high_failure_rate, revoked_key_usage, unusual_time, whose
\* trigger condition holds, and no anomaly when none holds.
DetectorOrder ==
    [][\A i \in CallIds : Analysed(i) => VerdictType(i) = FirstHit(tasks[i].userId)]_vars

\* C18: an analysis of a user with more than 20 operations in the window
\* returns high_volume with severity medium, whatever failed audits,
\* attempts with revoked keys or operations out of hours there are.
HighVolumeFirst ==
    [][\A i \in CallIds :
          Analysed(i) /\ Len(OperationsInWindow(tasks[i].userId)) > MAX_OPERATIONS_PER_MINUTE
          => /\ VerdictType(i) = "high_volume"
             /\ tasks'[i].anomaly.severity = "medium"]_vars

\* an analysis has returned high_volume for a user whose attempts with a
\* revoked key and whose operations out of hours would trigger as well
HighVolumeFirstWitness ==
    \E i \in CallIds :
        /\ tasks[i].pc = "record"
        /\ tasks[i].anomaly.anomalyType = "high_volume"
        /\ tasks[i].anomaly.severity = "medium"
        /\ Len(OperationsInWindow(tasks[i].userId)) > MAX_OPERATIONS_PER_MINUTE
        /\ RevokedHolds(tasks[i].userId)
        /\ TimeHolds(tasks[i].userId)
        /\ Len(FailedLogs) = MaxFailed

\* C19: when a user has made 25 successful encryptions and none that failed,
\* all in the window and in working hours, and the analyses are over, the
\* alerts the user is sent are one alert, of type high_volume and severity
\* medium.
HighVolumeAlert ==
    \A i \in CallIds :
        /\ calls[i].op = "alerts" /\ Returned(i)
        /\ Len(OperationsInWindow(calls[i].userId)) = 25
        /\ Len(getOperationsByUser(calls[i].userId, 50)) = 25
        /\ Len(FailedLogs) = 0
        /\ ~TimeHolds(calls[i].userId)
        /\ \A j \in CallIds : tasks[j].pc \in {"none", "done"}
        => /\ Len(calls[i].result) = 1
           /\ calls[i].result[1].type = "high_volume"
           /\ calls[i].result[1].severity = "medium"

\* C20: an analysis of a user with at least 2 FAILED audit records in the
\* window whose error says the key is not active, and neither with more than
\* 20 operations in the window nor with the failure ratio reached, returns
\* revoked_key_usage with severity high.
RevokedKeyUsage ==
    [][\A i \in CallIds :
          /\ Analysed(i)
          /\ RevokedHolds(tasks[i].userId)
          /\ ~VolumeHolds(tasks[i].userId)
          /\ ~FailureHolds(tasks[i].userId)
          => /\ VerdictType(i) = "revoked_key_usage"
             /\ tasks'[i].anomaly.severity = "high"]_vars

\* the FAILED DATA_ENCRYPT and DATA_DECRYPT audit records of a user in the window
FailedDataLogs(userId) ==
    {id \in DOMAIN auditLogsStore :
        /\ auditLogsStore[id].userId = userId
        /\ auditLogsStore[id].status = "FAILED"
        /\ auditLogsStore[id].action \in {"DATA_ENCRYPT", "DATA_DECRYPT"}
        /\ InWindow(auditLogsStore[id].timestamp)}

\* C21: for a user with operations in the window, the failure detector
\* triggers exactly when the number of the user's FAILED DATA_ENCRYPT and
\* DATA_DECRYPT audit records in the window is at least 0.30 times the number
\* of the user's operations in the window.
FailureRatioTrigger ==
    \A u \in DOMAIN usersStore :
        Len(OperationsInWindow(u)) > 0 =>
            (FailureHolds(u) <=>
                Cardinality(FailedDataLogs(u)) * 100
                    >= FAILED_OPERATIONS_PERCENT * Len(OperationsInWindow(u)))

\* C22: the step of a revoke that writes to the registry leaves the record of
\* a key that is already revoked as it is, field by field, and sets the status
\* of an active key to revoked; a revoke of a key that exists ends in success.
RevokeIdempotent ==
    [][\A i \in CallIds :
          /\ calls[i].op = "revoke" /\ calls[i].pc = "getKey" /\ calls'[i].pc # "getKey"
          /\ calls[i].keyId \in DOMAIN keysStore
          => /\ calls'[i].err = NoErr
             /\ keysStore'[calls[i].keyId].status = "revoked"
             /\ keysStore[calls[i].keyId].status = "revoked"
                    => keysStore'[calls[i].keyId] = keysStore[calls[i].keyId]]_vars

\* the errors with which a policy guard turns a caller away
GuardDenials == {"Access denied", "Unauthorized access to key", "Key is not active"}

\* C23: a call that a policy guard has turned away has ended with an error
\* and has appended a FAILED audit record of its user.
GuardDenialAudited ==
    \A i \in CallIds :
        Returned(i) /\ Failed(i) /\ calls[i].err[1] \in GuardDenials =>
            \E id \in calls[i].audits :
                /\ id \in DOMAIN auditLogsStore
                /\ auditLogsStore[id].status = "FAILED"
                /\ auditLogsStore[id].userId = calls[i].userId

\* a key as a route sent it shows neither the wrapped material nor its iv
Redacted(sent) == "keyData" \notin DOMAIN sent /\ "iv" \notin DOMAIN sent

\* C24: every key that POST /api/keys or GET /api/keys has sent, to any user,
\* is without keyData and iv.
KeyMaterialNotListed ==
    \A i \in CallIds :
        Returned(i) /\ ~Failed(i) =>
            /\ calls[i].op = "generateKey" => Redacted(calls[i].result)
            /\ calls[i].op = "listKeys" =>
                   \A n \in DOMAIN calls[i].result : Redacted(calls[i].result[n])

\* a key was created and sent, and a listing with a key in it was sent
KeyMaterialNotListedWitness ==
    \E i, j \in CallIds :
        /\ calls[i].op = "generateKey" /\ Returned(i) /\ ~Failed(i) /\ ThisLife(i)
        /\ calls[j].op = "listKeys" /\ Returned(j) /\ ThisLife(j)
        /\ Len(calls[j].result) > 0
        /\ calls[j].result[1].id = calls[i].result.id

\* the audit records that match the filters of the query of call i
Matching(i) ==
    {id \in DOMAIN auditLogsStore :
        MatchesFilters(auditLogsStore[id], LogFilters(calls[i].userId, calls[i].data))}

\* C25: the page of audit records a query was sent holds records that match
\* its filters, the one appended later before the one appended earlier, also
\* among records of one timestamp: the n-th record of the page is the matching
\* record with offset + n - 1 matching records appended after it; and the
\* total is the number of matching records.
AuditQueryNewestFirst ==
    \A i \in CallIds :
        calls[i].op = "logs" /\ Returned(i) =>
            LET logs == calls[i].result.logs
                offset == (calls[i].data.page - 1) * calls[i].data.limit
            IN  /\ calls[i].result.total = Cardinality(Matching(i))
                /\ \A n \in DOMAIN logs :
                       /\ logs[n].id \in Matching(i)
                       /\ logs[n] = auditLogsStore[logs[n].id]
                       /\ Cardinality({id \in Matching(i) : id > logs[n].id}) = offset + n - 1

\* the operation records of a user of one kind
OperationsOf(u, op) ==
    {id \in DOMAIN operationsStore :
        operationsStore[id].userId = u /\ operationsStore[id].operation = op}

\* the SUCCESS audit records of a user for one kind of operation
SuccessAuditsOf(u, op) ==
    {id \in DOMAIN auditLogsStore :
        /\ auditLogsStore[id].userId = u
        /\ auditLogsStore[id].action = (IF op = "encrypt" THEN "DATA_ENCRYPT" ELSE "DATA_DECRYPT")
        /\ auditLogsStore[id].status = "SUCCESS"}

Quiescent == \A i \in CallIds : calls[i].pc \in {"idle", "done"}

\* C26: every operation record has status success, and when no call is in
\* progress each user has as many operation records of encrypt (of decrypt) as
\* SUCCESS audit records of DATA_ENCRYPT (of DATA_DECRYPT).
OperationsAuditSplit ==
    /\ \A id \in DOMAIN operationsStore : operationsStore[id].status = "success"
    /\ Quiescent =>
           \A u \in DOMAIN usersStore : \A op \in CryptoOps :
               Cardinality(OperationsOf(u, op)) = Cardinality(SuccessAuditsOf(u, op))

\* no call is in progress; a user has encrypted and decrypted, and a call failed
OperationsAuditSplitWitness ==
    /\ Quiescent
    /\ \E u \in DOMAIN usersStore :
           OperationsOf(u, "encrypt") # {} /\ OperationsOf(u, "decrypt") # {}
    /\ \E id \in DOMAIN auditLogsStore : auditLogsStore[id].status = "FAILED"

\* C27: an encrypt or decrypt call returns in the step that starts its
\* analysis, before the analysis has done anything; and no step of an
\* analysis, whether it finds nothing, finds an anomaly or fails, changes what
\* a call returned, an operation record or an audit record, or adds a record
\* other than ANOMALY_DETECTED.
AnalysisApart ==
    [][\A i \in CallIds :
          /\ calls[i].op \in CryptoOps /\ ~Returned(i) /\ calls'[i].pc = "done"
                 => tasks'[i].pc = "detect"
          /\ tasks[i].pc \in {"detect", "record"} /\ tasks'[i] # tasks[i]
                 => /\ calls' = calls
                    /\ operationsStore' = operationsStore
                    /\ \A id \in DOMAIN auditLogsStore :
                           id \in DOMAIN auditLogsStore'
                           /\ auditLogsStore'[id] = auditLogsStore[id]
                    /\ \A id \in DOMAIN auditLogsStore' \ DOMAIN auditLogsStore :
                           auditLogsStore'[id].action = "ANOMALY_DETECTED"]_vars

\* a call has returned its result while its analysis has not run; the
\* analysis of another call has failed, and that call's result stands; the
\* analysis of a third has recorded an anomaly
AnalysisApartWitness ==
    \E i, j, k \in CallIds :
        /\ calls[i].op \in CryptoOps /\ Returned(i) /\ ~Failed(i)
        /\ ~IsNull(calls[i].result) /\ tasks[i].pc = "detect"
        /\ calls[j].op \in CryptoOps /\ Returned(j) /\ ~Failed(j)
        /\ ~IsNull(calls[j].result) /\ tasks[j].anomaly = Caught
        /\ tasks[k].pc = "done" /\ tasks[k].anomaly # Caught
        /\ \E id \in DOMAIN auditLogsStore : auditLogsStore[id].action = "ANOMALY_DETECTED"

\* detectRevokedKeyUsage over the audit records S: the newest 50 of them, and
\* of those the records of the user in the window that say 'not active'
RevokedKeyUsageOver(S, userId) ==
    LET logs == ArraySlice(NewestFirst(auditLogsStore, S), 0, 50)
        Revoked(log) == /\ InWindow(log.timestamp)
                        /\ log.userId = userId
                        /\ IncludesNotActive(log.details)
    IN  Len(SelectSeq(logs, Revoked)) >= REVOKED_KEY_OPERATIONS_THRESHOLD

\* the audit records the detector did not write itself
NotAnomalyLogs == {id \in DOMAIN auditLogsStore : auditLogsStore[id].action # "ANOMALY_DETECTED"}

ClearAlertsFrame ==
    [][\A i \in CallIds :
          /\ calls[i].pc = "idle" /\ calls'[i].op = "clearAlerts" =>
                LET target == calls'[i].keyId
                    caller == calls'[i].userId
                IN  /\ operationsCache' =
                           [u \in DOMAIN operationsCache \ {target} |-> operationsCache[u]]
                    /\ DOMAIN auditLogsStore' = DOMAIN auditLogsStore \cup {auditLogIdCounter}
                    /\ auditLogIdCounter \notin DOMAIN auditLogsStore
                    /\ \A id \in DOMAIN auditLogsStore : auditLogsStore'[id] = auditLogsStore[id]
                    /\ auditLogsStore'[auditLogIdCounter].action = "ALERTS_CLEARED"
                    /\ auditLogsStore'[auditLogIdCounter].status = "SUCCESS"
                    /\ auditLogsStore'[auditLogIdCounter].userId = caller
                    /\ operationsStore' = operationsStore
                    /\ keysStore' = keysStore /\ keyIdIndex' = keyIdIndex
                    /\ ~isAdmin(caller) => target = caller
          /\ calls[i].op = "clearAlerts" /\ calls'[i] # calls[i] /\ restarts' = restarts =>
                /\ operationsCache' = operationsCache
                /\ auditLogsStore' = auditLogsStore
                /\ operationsStore' = operationsStore
                /\ keysStore' = keysStore]_vars

\* alerts were cleared for a user whose operations an analysis had cached,
\* with an operation, a key and an ANOMALY_DETECTED record in the stores
ClearAlertsFrameWitness ==
    \E i, j \in CallIds :
        /\ calls[i].op = "clearAlerts" /\ Returned(i) /\ ThisLife(i)
        /\ ThisLife(j) /\ tasks[j].pc = "done" /\ calls[j].userId = calls[i].keyId
        /\ calls[i].keyId \notin DOMAIN operationsCache
        /\ operationsStore # <<>> /\ keysStore # <<>>
        /\ \E id \in DOMAIN auditLogsStore :
               /\ auditLogsStore[id].action = "ANOMALY_DETECTED"
               /\ id < CHOOSE a \in calls[i].audits : TRUE

\* the audit records of a user
OwnLogs(u) == {id \in DOMAIN auditLogsStore : auditLogsStore[id].userId = u}

\* C30: when an analysis runs, the detector of revoked key usage finds for
\* each user what it finds in the user's own audit records: the records of
\* other users do not change whether it triggers.
RevokedDetectorIsolation ==
    \A i \in CallIds :
        tasks[i].pc = "detect" =>
            \A u \in DOMAIN usersStore :
                RevokedHolds(u) <=> RevokedKeyUsageOver(OwnLogs(u), u)

====
